---- MODULE Spec2Model ----
(***************************************************************************)
(* A model of etl_process (src/main.py): one invocation of the cloud       *)
(* function, from the trigger descriptor to the value it returns.          *)
(*                                                                         *)
(* A DataFrame is a record [cols, rows]: cols is the sequence of column    *)
(* labels, rows the sequence of rows, each row a function from the labels  *)
(* to cells.  A cell is NaN (the missing value) or V(x).  The pandas       *)
(* operations the function calls (concat, drop_duplicates, rename,         *)
(* groupby/sum/mean, merge, drop, column selection, to_datetime) are       *)
(* operators on such frames; one that raises returns an exception record   *)
(* [exc, msg] in place of a frame.  Sales and Profit are integers and a    *)
(* mean is an exact fraction; floating-point rounding is not modelled.     *)
(***************************************************************************)
EXTENDS Integers, Sequences, FiniteSets, TLC

(***************************************************************************)
(* Bounds of the model.                                                    *)
(***************************************************************************)
MaxOrders == 1
MaxLines == 2

(***************************************************************************)
(* Cells, frames, exceptions.                                              *)
(***************************************************************************)
NaN == <<>>
V(x) == <<x>>
Val(c) == c[1]

Range(s) == {s[i] : i \in DOMAIN s}
Frame(cols, rows) == [cols |-> cols, rows |-> rows]
Raised(exc, msg) == [exc |-> exc, msg |-> msg]
IsErr(x) == "exc" \in DOMAIN x
\* A chain a.f().g(): g runs only if f did not raise.
Bind(x, F(_)) == IF IsErr(x) THEN x ELSE F(x)

\* The i-th column of rows as a sequence of cells.
Column(df, c) == [i \in DOMAIN df.rows |-> df.rows[i][c]]

RECURSIVE SortedSeq(_)
SortedSeq(S) ==
    IF S = {} THEN <<>>
    ELSE LET m == CHOOSE x \in S : \A y \in S : x <= y
         IN  <<m>> \o SortedSeq(S \ {m})

RECURSIVE FirstMissing(_, _)
FirstMissing(cs, have) ==
    IF cs = <<>> THEN NaN
    ELSE IF Head(cs) \notin have THEN V(Head(cs))
    ELSE FirstMissing(Tail(cs), have)

\* df[[c1, ..., cn]]
SelectCols(df, cs) ==
    LET miss == FirstMissing(cs, Range(df.cols))
    IN  IF miss # NaN THEN Raised("KeyError", Val(miss))
        ELSE Frame(cs, [i \in DOMAIN df.rows |-> [c \in Range(cs) |-> df.rows[i][c]]])

\* pd.concat([a, b]): rows of a, then rows of b, over the union of the
\* column labels; a column a frame lacks is NaN in its rows.
Concat(a, b) ==
    LET cols == a.cols \o SelectSeq(b.cols, LAMBDA c : c \notin Range(a.cols))
        Widen(df) == [i \in DOMAIN df.rows |->
                        [c \in Range(cols) |->
                            IF c \in Range(df.cols) THEN df.rows[i][c] ELSE NaN]]
    IN  Frame(cols, Widen(a) \o Widen(b))

RECURSIVE KeepFirst(_, _)
KeepFirst(rows, seen) ==
    IF rows = <<>> THEN <<>>
    ELSE IF Head(rows) \in seen THEN KeepFirst(Tail(rows), seen)
    ELSE <<Head(rows)>> \o KeepFirst(Tail(rows), seen \cup {Head(rows)})

\* df.drop_duplicates().reset_index(drop=True): whole-row duplicates go, the
\* first occurrence stays, in order.
DropDuplicates(df) == Frame(df.cols, KeepFirst(df.rows, {}))

\* df.rename(columns={old: new}); a label that is absent is ignored.
Rename(df, old, new) ==
    LET ren(c) == IF c = old THEN new ELSE c
        src(c) == IF c = new /\ old \in Range(df.cols) THEN old ELSE c
        cols == [i \in DOMAIN df.cols |-> ren(df.cols[i])]
    IN  Frame(cols, [i \in DOMAIN df.rows |-> [c \in Range(cols) |-> df.rows[i][src(c)]]])

\* df[c] = cells
WithColumn(df, c, cells) ==
    LET cols == IF c \in Range(df.cols) THEN df.cols ELSE Append(df.cols, c)
    IN  Frame(cols, [i \in DOMAIN df.rows |->
                        [k \in Range(cols) |-> IF k = c THEN cells[i] ELSE df.rows[i][k]]])

\* df.drop(columns=[c])
Drop(df, c) ==
    IF c \notin Range(df.cols) THEN Raised("KeyError", c)
    ELSE LET cols == SelectSeq(df.cols, LAMBDA k : k # c)
         IN  Frame(cols, [i \in DOMAIN df.rows |-> [k \in Range(cols) |-> df.rows[i][k]]])

RECURSIVE SumCells(_)
\* Series.sum(): missing values are skipped.
SumCells(cells) ==
    IF cells = <<>> THEN 0
    ELSE (IF Head(cells) = NaN THEN 0 ELSE Val(Head(cells))) + SumCells(Tail(cells))

Present(cells) == SelectSeq(cells, LAMBDA c : c # NaN)

Abs(n) == IF n < 0 THEN -n ELSE n

RECURSIVE Gcd(_, _)
Gcd(a, b) == IF b = 0 THEN a ELSE Gcd(b, a % b)

\* The exact quotient n/d, d > 0, in lowest terms.
Fraction(n, d) ==
    LET g == Gcd(Abs(n), d) IN [num |-> n \div g, den |-> d \div g]

\* Series.mean(): the sum of the values present over their number; NaN
\* when none is present.
MeanCells(cells) ==
    LET p == Present(cells)
    IN  IF p = <<>> THEN NaN ELSE V(Fraction(SumCells(p), Len(p)))

\* The cells of column col in the rows whose key column holds k, in order.
GroupCells(df, key, k, col) ==
    Column(Frame(df.cols, SelectSeq(df.rows, LAMBDA r : r[key] = V(k))), col)

\* df.groupby(key)[col].sum() or .mean(), then .reset_index(): one row per
\* distinct key present (rows whose key is missing belong to no group), keys
\* ascending.
GroupBy(df, key, col, how) ==
    IF key \notin Range(df.cols) THEN Raised("KeyError", key)
    ELSE IF col \notin Range(df.cols) THEN Raised("KeyError", col)
    ELSE LET keys == SortedSeq({Val(r[key]) : r \in {x \in Range(df.rows) : x[key] # NaN}})
             agg(cells) == IF how = "sum" THEN V(SumCells(cells)) ELSE MeanCells(cells)
         IN  Frame(<<key, col>>,
                   [i \in DOMAIN keys |->
                       [c \in {key, col} |->
                           IF c = key THEN V(keys[i])
                           ELSE agg(GroupCells(df, key, keys[i], col))]])

GroupBySum(df, key, col) == GroupBy(df, key, col, "sum")
GroupByMean(df, key, col) == GroupBy(df, key, col, "mean")

RECURSIVE Flatten(_)
Flatten(ss) == IF ss = <<>> THEN <<>> ELSE Head(ss) \o Flatten(Tail(ss))

\* The label a column of one side carries in the result of a merge: a
\* label both sides have, other than a shared key, takes the side's suffix.
Suffixed(c, overlap, suffix) == IF c \in overlap THEN c \o suffix ELSE c

\* left.merge(right, left_on=lk, right_on=rk, how='left'); on=k is lk = rk.
\* Every left row is kept, once per right row with an equal key (a missing
\* key equals a missing key), in the order of the right rows; with no such
\* row it is kept once, the right side's columns NaN.
Merge(left, right, lk, rk) ==
    IF rk \notin Range(right.cols) THEN Raised("KeyError", rk)
    ELSE IF lk \notin Range(left.cols) THEN Raised("KeyError", lk)
    ELSE
    LET rcols == IF lk = rk THEN SelectSeq(right.cols, LAMBDA c : c # rk) ELSE right.cols
        overlap == Range(left.cols) \cap Range(rcols)
        lname(c) == Suffixed(c, overlap, "_x")
        rname(c) == Suffixed(c, overlap, "_y")
        cols == [i \in DOMAIN left.cols |-> lname(left.cols[i])]
                \o [i \in DOMAIN rcols |-> rname(rcols[i])]
        lsrc(c) == CHOOSE k \in Range(left.cols) : lname(k) = c
        rsrc(c) == CHOOSE k \in Range(rcols) : rname(k) = c
        fromLeft == {lname(k) : k \in Range(left.cols)}
        Joined(l, r) == [c \in Range(cols) |->
                            IF c \in fromLeft THEN l[lsrc(c)] ELSE r[rsrc(c)]]
        Alone(l) == [c \in Range(cols) |-> IF c \in fromLeft THEN l[lsrc(c)] ELSE NaN]
        Matches(l) == SelectSeq(right.rows, LAMBDA r : r[rk] = l[lk])
        Expand(l) == LET m == Matches(l)
                     IN  IF m = <<>> THEN <<Alone(l)>>
                         ELSE [j \in DOMAIN m |-> Joined(l, m[j])]
    IN  Frame(cols, Flatten([i \in DOMAIN left.rows |-> Expand(left.rows[i])]))

(***************************************************************************)
(* Dates.  A date string is the sequence of its tokens: "01/01/2020" is    *)
(* <<1, "/", 1, "/", 2020>>, "2020-01-05" is <<2020, "-", 1, "-", 5>>.     *)
(***************************************************************************)
IsLeap(y) == (y % 4 = 0 /\ y % 100 # 0) \/ y % 400 = 0
DaysInMonth(m, y) ==
    IF m = 2 THEN (IF IsLeap(y) THEN 29 ELSE 28)
    ELSE IF m \in {4, 6, 9, 11} THEN 30 ELSE 31

\* strptime with "%d/%m/%Y": day, "/", month, "/", four-digit year.
MatchesFormat(s) ==
    /\ s[2] = "/" /\ s[4] = "/"
    /\ s[5] \in 1000..9999
    /\ s[3] \in 1..12
    /\ s[1] \in 1..DaysInMonth(s[3], s[5])

Timestamp(s) == [day |-> s[1], month |-> s[3], year |-> s[5],
                 quarter |-> ((s[3] - 1) \div 3) + 1]

\* pd.to_datetime(cells, format="%d/%m/%Y"): NaN stays missing (NaT); a
\* string that does not match the format raises.
ToDatetime(cells) ==
    IF \E i \in DOMAIN cells : cells[i] # NaN /\ ~MatchesFormat(Val(cells[i]))
    THEN Raised("ValueError", "time data does not match format")
    ELSE [stamps |-> [i \in DOMAIN cells |->
                        IF cells[i] = NaN THEN NaN ELSE V(Timestamp(Val(cells[i])))]]

\* .dt.day, .dt.month, .dt.year, .dt.quarter
DtField(stamps, f) ==
    [i \in DOMAIN stamps |-> IF stamps[i] = NaN THEN NaN ELSE V(Val(stamps[i])[f])]

(***************************************************************************)
(* The source bucket: what a download of each required file can yield.     *)
(***************************************************************************)
SeqsUpTo(S, n) == UNION {[1..k -> S] : k \in 0..n}

D1 == <<1, "/", 1, "/", 2020>>
D2 == <<3, "/", 1, "/", 2020>>
IsoDate == <<2020, "-", 1, "-", 5>>
DateStrings == {D1, D2, IsoDate}
Ids == {1, 2}
Measures == {[Sales |-> 100, Profit |-> 20], [Sales |-> 50, Profit |-> 11]}

OrderCols == <<"Order ID", "Order Date", "Ship Date">>
OrderRows ==
    {[c \in Range(OrderCols) |->
        CASE c = "Order ID" -> V(id) [] c = "Order Date" -> V(od) [] OTHER -> V(sd)]
     : id \in Ids, od \in DateStrings, sd \in DateStrings}
OrderFiles == {Frame(OrderCols, rows) : rows \in SeqsUpTo(OrderRows, MaxOrders)}

DetailCols == <<"Order ID", "Customer ID", "Product ID", "Quantity", "Discount",
                "Sales", "Profit">>
DetailRows ==
    {[c \in Range(DetailCols) |->
        CASE c = "Order ID" -> V(o) [] c = "Customer ID" -> V(cu)
          [] c = "Product ID" -> V(p) [] c = "Quantity" -> V(2)
          [] c = "Discount" -> V(0) [] c = "Sales" -> V(m.Sales)
          [] OTHER -> V(m.Profit)]
     : o \in Ids, cu \in Ids, p \in Ids, m \in Measures}
DetailFiles == {Frame(DetailCols, rows) : rows \in SeqsUpTo(DetailRows, MaxLines)}

CustomerCols == <<"Customer ID", "Segment">>
CustomerRow == [c \in Range(CustomerCols) |->
                   IF c = "Customer ID" THEN V(1) ELSE V("Consumer")]
CustomerFiles == {Frame(CustomerCols, <<CustomerRow>>),
                  Frame(CustomerCols, <<CustomerRow, CustomerRow>>)}

ProductCols == <<"Product ID", "Category">>
ProductRow == [c \in Range(ProductCols) |->
                  IF c = "Product ID" THEN V(1) ELSE V("Furniture")]
ProductFiles == {Frame(ProductCols, <<ProductRow>>),
                 Frame(ProductCols, <<ProductRow, ProductRow>>)}

required_files == <<"ordersdf.csv", "customersdf.csv", "orderdetailsdf.csv",
                    "productsdf.csv">>
TriggerNames == {"orderdetailsdf.csv", "readme.txt"}

\* The local each download is bound to (lines 38-45).
DfName(file) ==
    CASE file = "ordersdf.csv" -> "orders_df"
      [] file = "customersdf.csv" -> "customers_df"
      [] file = "orderdetailsdf.csv" -> "order_details_df"
      [] OTHER -> "products_df"

FileContents(file) ==
    CASE file = "ordersdf.csv" -> OrderFiles
      [] file = "customersdf.csv" -> CustomerFiles
      [] file = "orderdetailsdf.csv" -> DetailFiles
      [] OTHER -> ProductFiles

(***************************************************************************)
(* The state of one invocation.                                            *)
(***************************************************************************)
VARIABLES
    pc,      \* the statement the invocation is at
    event,   \* event['name'], the file that triggered the invocation
    bucket,  \* the required files the source bucket holds
    frames,  \* the DataFrame locals assigned so far, by name
    reads,   \* the files a download was issued for, in order
    writes,  \* the tables a load job was issued for, in order
    sink,    \* the tables the warehouse holds, by name
    result   \* what the invocation returned

vars == <<pc, event, bucket, frames, reads, writes, sink, result>>

Pending == [kind |-> "pending"]
ReturnedNone == [kind |-> "none"]
Success == [kind |-> "ok", body |-> "ETL process completed successfully.", code |-> 200]
Failure(e) == [kind |-> "error", body |-> e, code |-> 500]

Empty == [x \in {} |-> 0]

Init ==
    /\ pc = "start"
    /\ event \in TriggerNames
    /\ bucket \in SUBSET Range(required_files)
    /\ frames = Empty
    /\ reads = <<>>
    /\ writes = <<>>
    /\ sink = Empty
    /\ result = Pending

\* except Exception as e: return f"Error: {e}", 500   (lines 135-137)
Except(e) == pc' = "done" /\ result' = Failure(e)

\* A faulty variant of IsRequired, for the sensitivity of C9_Returns: the
\* membership check dropped.
AnyName(name) == TRUE

\* Lines 28-31: a trigger for another file returns at once, with no value.
IsRequired(name) == name \in Range(required_files)

CheckTrigger ==
    /\ pc = "start"
    /\ IF IsRequired(event)
       THEN pc' = "read" /\ result' = result
       ELSE pc' = "done" /\ result' = ReturnedNone
    /\ UNCHANGED <<event, bucket, frames, reads, writes, sink>>

\* A faulty variant of DownloadOutcomes, for the sensitivity of
\* C7_MissingInput: a file the bucket lacks reads as a table with no rows.
DownloadOutcomesLenient(file) ==
    IF file \in bucket THEN FileContents(file)
    ELSE {Frame((CHOOSE f \in FileContents(file) : TRUE).cols, <<>>)}

\* blob.download_as_text() and read_csv (lines 36-39): the file's frame, or
\* NotFound when the bucket does not hold the file.
DownloadOutcomes(file) ==
    IF file \in bucket THEN FileContents(file) ELSE {Raised("NotFound", file)}

\* Lines 35-45, one pass of the loop: the next required file is downloaded
\* and bound to its local.
Download ==
    /\ pc = "read"
    /\ LET file == required_files[Len(reads) + 1]
       IN  \E got \in DownloadOutcomes(file) :
             /\ reads' = Append(reads, file)
             /\ IF IsErr(got)
                THEN Except(got) /\ frames' = frames
                ELSE /\ frames' = (DfName(file) :> got) @@ frames
                     /\ pc' = IF Len(reads') = Len(required_files)
                              THEN "aggregate" ELSE "read"
                     /\ result' = result
    /\ UNCHANGED <<event, bucket, writes, sink>>

\* A statement that assigns DataFrame locals: it raises, or binds them and
\* goes on to the next statement.
Assign(r, next) ==
    /\ IF IsErr(r)
       THEN Except(r) /\ frames' = frames
       ELSE frames' = r @@ frames /\ pc' = next /\ result' = result
    /\ UNCHANGED <<event, bucket, reads, writes, sink>>

\* Lines 51-61: the four aggregates of the line items.
Aggregate(df, key, col, as) ==
    Bind(GroupBySum(df, key, col), LAMBDA f : Rename(f, col, as))

\* A faulty variant of AverageProfit, for the sensitivity of C5_Aggregates:
\* the profits summed, not averaged.
AverageProfitAsSum(df) ==
    Bind(GroupBySum(df, "Product ID", "Profit"),
         LAMBDA f : Rename(WithColumn(f, "Profit",
                                      [i \in DOMAIN f.rows |->
                                          V(Fraction(Val(f.rows[i]["Profit"]), 1))]),
                           "Profit", "AverageProfitPerProduct"))

AverageProfit(df) ==
    Bind(GroupByMean(df, "Product ID", "Profit"),
         LAMBDA f : Rename(f, "Profit", "AverageProfitPerProduct"))

Aggregates(od) ==
    LET cs == Aggregate(od, "Customer ID", "Sales", "TotalSalesPerCustomer")
        os == Aggregate(od, "Order ID", "Sales", "TotalSalesPerOrder")
        ps == Aggregate(od, "Product ID", "Sales", "TotalSalesPerProduct")
        pa == AverageProfit(od)
    IN  IF IsErr(cs) THEN cs ELSE IF IsErr(os) THEN os
        ELSE IF IsErr(ps) THEN ps ELSE IF IsErr(pa) THEN pa
        ELSE [customer_sales |-> cs, order_sales |-> os, product_sales |-> ps,
              product_avg_profit |-> pa]

FeatureEngineering ==
    /\ pc = "aggregate"
    /\ Assign(Aggregates(frames["order_details_df"]), "time_dim")

\* Lines 66-67: the two one-column frames, stacked and deduplicated.
UniqueDates(orders) ==
    LET od == SelectCols(orders, <<"Order Date">>)
        sd == SelectCols(orders, <<"Ship Date">>)
    IN  IF IsErr(od) THEN od ELSE IF IsErr(sd) THEN sd
        ELSE DropDuplicates(Concat(od, sd))

\* Lines 66-79: the time dimension.
TimeDim(orders) ==
    LET u == UniqueDates(orders)
    IN  Bind(u, LAMBDA t0 :
          LET t1 == Rename(t0, t0.cols[1], "Date")
              t2 == WithColumn(t1, "TimeID", [i \in DOMAIN t1.rows |-> V(i)])
              parsed == ToDatetime(Column(t2, "Date"))
          IN  IF IsErr(parsed) THEN parsed
              ELSE LET stamps == parsed.stamps
                       t3 == WithColumn(t2, "Day", DtField(stamps, "day"))
                       t4 == WithColumn(t3, "Month", DtField(stamps, "month"))
                       t5 == WithColumn(t4, "Year", DtField(stamps, "year"))
                   IN  WithColumn(t5, "Quarter", DtField(stamps, "quarter")))

BuildTimeDim ==
    /\ pc = "time_dim"
    /\ LET t == TimeDim(frames["orders_df"])
       IN  Assign(IF IsErr(t) THEN t ELSE [time_dim |-> t], "dims")

\* Lines 81-82.
BuildDims ==
    /\ pc = "dims"
    /\ Assign([customer_dim |-> DropDuplicates(frames["customers_df"]),
               product_dim |-> DropDuplicates(frames["products_df"])], "fact")

\* Lines 85-89: the line items with the four aggregates and the order's
\* two dates attached.
FactWithDates(f) ==
    LET m1 == Merge(f["order_details_df"], f["customer_sales"], "Customer ID", "Customer ID")
        m2 == Bind(m1, LAMBDA x : Merge(x, f["order_sales"], "Order ID", "Order ID"))
        m3 == Bind(m2, LAMBDA x : Merge(x, f["product_sales"], "Product ID", "Product ID"))
        m4 == Bind(m3, LAMBDA x : Merge(x, f["product_avg_profit"], "Product ID", "Product ID"))
        od == SelectCols(f["orders_df"], <<"Order ID", "Order Date", "Ship Date">>)
    IN  Bind(m4, LAMBDA x : Bind(od, LAMBDA o : Merge(x, o, "Order ID", "Order ID")))

AssembleFact ==
    /\ pc = "fact"
    /\ LET s == FactWithDates(frames)
       IN  Assign(IF IsErr(s) THEN s ELSE [sales_fact |-> s], "order_date")

\* Lines 93-95 and 98-100: one lookup of a date column in the time dimension.
TimeLookup(fact, time_dim, dateCol, idCol) ==
    Bind(Merge(fact, time_dim, dateCol, "Date"),
         LAMBDA m : Drop(Rename(m, "TimeID", idCol), "Date"))

ResolveOrderDate ==
    /\ pc = "order_date"
    /\ LET s == TimeLookup(frames["sales_fact"], frames["time_dim"], "Order Date", "OrderDateID")
       IN  Assign(IF IsErr(s) THEN s ELSE [sales_fact |-> s], "ship_date")

\* Lines 103-108: the columns of the fact table.
FactCols == <<"Product ID", "Customer ID", "OrderDateID", "ShipDateID", "Order ID",
              "Quantity", "Discount", "Sales", "Profit",
              "TotalSalesPerCustomer", "TotalSalesPerOrder",
              "TotalSalesPerProduct", "AverageProfitPerProduct">>

\* Lines 98-108: the ship-date lookup and the final selection of columns.
FinalFact(fact, time_dim) ==
    Bind(TimeLookup(fact, time_dim, "Ship Date", "ShipDateID"),
         LAMBDA m : SelectCols(m, FactCols))

\* Lines 118-123: the tables to load, in the order of the dict.
tables == <<"time_dim", "customer_dim", "product_dim", "sales_fact">>

\* Lines 125-133: the load jobs run one after the other, each awaited; the
\* first k complete and, when k is not all of them, the next one raises.
LoadTables(data, k) ==
    [writes |-> SubSeq(tables, 1, IF k < Len(tables) THEN k + 1 ELSE k),
     sink   |-> [i \in 1..k |-> data[tables[i]]],
     result |-> IF k = Len(tables) THEN Success
                ELSE Failure(Raised("LoadError", tables[k + 1]))]

\* The tables of the sink, by name.
Persisted(loaded) == [n \in {tables[i] : i \in DOMAIN loaded} |->
                        loaded[CHOOSE i \in DOMAIN loaded : tables[i] = n]]

\* Lines 97-133: the ship-date lookup, the selection of the fact table's
\* columns, the load of the four tables and the return.
FinishRun ==
    /\ pc = "ship_date"
    /\ LET s == FinalFact(frames["sales_fact"], frames["time_dim"])
       IN  IF IsErr(s)
           THEN Except(s) /\ UNCHANGED <<frames, writes, sink>>
           ELSE \E k \in 0..Len(tables) :
                  LET data == [sales_fact |-> s] @@ frames
                      out == LoadTables(data, k)
                  IN  /\ frames' = data
                      /\ writes' = out.writes
                      /\ sink' = Persisted(out.sink)
                      /\ result' = out.result
                      /\ pc' = "done"
    /\ UNCHANGED <<event, bucket, reads>>

Next ==
    \/ CheckTrigger
    \/ Download
    \/ FeatureEngineering
    \/ BuildTimeDim
    \/ BuildDims
    \/ AssembleFact
    \/ ResolveOrderDate
    \/ FinishRun

Spec == Init /\ [][Next]_vars

(***************************************************************************)
(* Vocabulary of the properties.                                           *)
(***************************************************************************)
InputLocals == {DfName(f) : f \in Range(required_files)}
AllRead == InputLocals \subseteq DOMAIN frames
Orders == frames["orders_df"].rows
Lines == frames["order_details_df"].rows
LinesWith(col, cell) == {i \in DOMAIN Lines : Lines[i][col] = cell}

RECURSIVE Total(_, _)
\* The sum of column col over the line items with index in I.
Total(I, col) ==
    IF I = {} THEN 0
    ELSE LET i == CHOOSE j \in I : TRUE
         IN  Val(Lines[i][col]) + Total(I \ {i}, col)

OrderDates == {Orders[i]["Order Date"] : i \in DOMAIN Orders}
ShipDates == {Orders[i]["Ship Date"] : i \in DOMAIN Orders}
WellFormedDates == \A c \in OrderDates \cup ShipDates : MatchesFormat(Val(c))
\* All four datasets were read and every date of the Order dataset parses.
ValidInput == AllRead /\ WellFormedDates
\* The orders a line item or fact row belongs to.
OrdersOf(row) == {o \in Range(Orders) : o["Order ID"] = row["Order ID"]}
FactLoaded == result = Success /\ "sales_fact" \in DOMAIN sink

(***************************************************************************)
(* An observation the results on the load rest on: no run issues a load    *)
(* job or returns the confirmation.  The merge of line 93 renames the fact *)
(* table's 'Ship Date' to 'Ship Date_x' (time_dim has a 'Ship Date' column *)
(* of its own), so the merge of line 98 raises KeyError in every run that  *)
(* gets there.  An invariant of Spec.                                      *)
(***************************************************************************)
LoadNeverReached ==
    /\ writes = <<>> /\ DOMAIN sink = {}
    /\ result.kind # "ok"
    /\ (pc = "done" /\ "sales_fact" \in DOMAIN frames) =>
          result = Failure(Raised("KeyError", "Ship Date"))

(***************************************************************************)
(* C1: for every valid input set, the run reaches the sink with a          *)
(* SalesFact table that has as many rows as the order-detail dataset.      *)
(* This is the claim as stated; the code violates it (a defect of the     *)
(* code: line 98 raises in every run that gets there).                     *)
(***************************************************************************)
C1_FactRowCount ==
    (pc = "done" /\ ValidInput) =>
        /\ FactLoaded
        /\ Len(sink["sales_fact"].rows) = Len(Lines)

(***************************************************************************)
(* C2: in the SalesFact produced, every line item whose Order ID matches   *)
(* an order has as OrderDateID the TimeID of the TimeDim row whose Date is *)
(* the order's Order Date, and as ShipDateID the TimeID of the TimeDim row *)
(* whose Date is the order's Ship Date, both present.  This is the claim   *)
(* as stated; the code violates it (a defect of the code).                 *)
(***************************************************************************)
TimeIdOf(time_dim, date) ==
    {t["TimeID"] : t \in {x \in Range(time_dim.rows) : x["Date"] = date}}

C2_DateKeys ==
    (pc = "done" /\ ValidInput /\ \E i \in DOMAIN Lines : OrdersOf(Lines[i]) # {}) =>
        /\ FactLoaded
        /\ "time_dim" \in DOMAIN sink
        /\ \A r \in Range(sink["sales_fact"].rows) : \A o \in OrdersOf(r) :
              /\ r["OrderDateID"] # NaN /\ r["ShipDateID"] # NaN
              /\ TimeIdOf(sink["time_dim"], o["Order Date"]) = {r["OrderDateID"]}
              /\ TimeIdOf(sink["time_dim"], o["Ship Date"]) = {r["ShipDateID"]}

(***************************************************************************)
(* C3: for every line item whose order has an Order Date identical to its  *)
(* Ship Date, both lookups resolve and the fact row has OrderDateID equal  *)
(* to ShipDateID, the TimeID of that one date.  This is the claim as       *)
(* stated; the code violates it (a defect of the code).                    *)
(***************************************************************************)
SameDay(o) == o["Order Date"] = o["Ship Date"]

C3_SameDate ==
    (pc = "done" /\ ValidInput
       /\ \E i \in DOMAIN Lines : \E o \in OrdersOf(Lines[i]) : SameDay(o)) =>
        /\ FactLoaded
        /\ "time_dim" \in DOMAIN sink
        /\ \A r \in Range(sink["sales_fact"].rows) : \A o \in OrdersOf(r) :
              SameDay(o) =>
                /\ r["OrderDateID"] # NaN
                /\ r["OrderDateID"] = r["ShipDateID"]
                /\ TimeIdOf(sink["time_dim"], o["Order Date"]) = {r["OrderDateID"]}

(***************************************************************************)
(* C4: the TimeDim table has exactly one row per distinct date of the      *)
(* union of the Order Date and Ship Date columns, every row's Date is one  *)
(* of those dates, and TimeID is a bijection between the rows and 1..N, N  *)
(* the number of distinct dates.  This is the claim as stated; the code    *)
(* violates it (a defect of the code: lines 66-67 keep two date columns).  *)
(***************************************************************************)
C4_TimeDim ==
    "time_dim" \in DOMAIN frames =>
        LET t == frames["time_dim"].rows
            dates == OrderDates \cup ShipDates
            N == Cardinality(dates)
        IN  /\ Len(t) = N
            /\ {t[i]["Date"] : i \in DOMAIN t} = dates
            /\ {t[i]["TimeID"] : i \in DOMAIN t} = {V(n) : n \in 1..N}

(***************************************************************************)
(* C5: each of the four aggregate mappings has exactly one entry per       *)
(* distinct grouping-key value of the order-detail dataset, and the value  *)
(* attached to every fact row is the sum of Sales over the line items      *)
(* sharing the row's Customer ID / Order ID / Product ID, and, for         *)
(* AverageProfitPerProduct, the sum of Profit over the line items sharing  *)
(* its Product ID divided by their count.                                  *)
(***************************************************************************)
OneEntryPerKey(name, key) ==
    LET m == frames[name].rows
        keys == {Lines[i][key] : i \in DOMAIN Lines}
    IN  /\ {m[i][key] : i \in DOMAIN m} = keys
        /\ Len(m) = Cardinality(keys)

\* cell holds the quotient sum / count.
IsQuotient(cell, sum, count) ==
    /\ cell # NaN
    /\ Val(cell).den > 0
    /\ Val(cell).num * count = sum * Val(cell).den

C5_Aggregates ==
    /\ "product_avg_profit" \in DOMAIN frames =>
          /\ OneEntryPerKey("customer_sales", "Customer ID")
          /\ OneEntryPerKey("order_sales", "Order ID")
          /\ OneEntryPerKey("product_sales", "Product ID")
          /\ OneEntryPerKey("product_avg_profit", "Product ID")
    /\ "sales_fact" \in DOMAIN frames =>
          \A r \in Range(frames["sales_fact"].rows) :
             LET byCustomer == LinesWith("Customer ID", r["Customer ID"])
                 byOrder == LinesWith("Order ID", r["Order ID"])
                 byProduct == LinesWith("Product ID", r["Product ID"])
             IN  /\ r["TotalSalesPerCustomer"] = V(Total(byCustomer, "Sales"))
                 /\ r["TotalSalesPerOrder"] = V(Total(byOrder, "Sales"))
                 /\ r["TotalSalesPerProduct"] = V(Total(byProduct, "Sales"))
                 /\ IsQuotient(r["AverageProfitPerProduct"],
                               Total(byProduct, "Profit"), Cardinality(byProduct))

\* Two line items of one product and one customer, in different orders, with
\* different Sales and Profit, have been joined with the aggregates.
C5_Witness ==
    /\ "sales_fact" \in DOMAIN frames
    /\ Len(Lines) = 2
    /\ Lines[1]["Product ID"] = Lines[2]["Product ID"]
    /\ Lines[1]["Customer ID"] = Lines[2]["Customer ID"]
    /\ Lines[1]["Order ID"] # Lines[2]["Order ID"]
    /\ Lines[1]["Profit"] # Lines[2]["Profit"]
    /\ \E r \in Range(frames["sales_fact"].rows) :
          /\ r["TotalSalesPerCustomer"] = V(150)
          /\ r["TotalSalesPerOrder"] # V(150)
          /\ r["AverageProfitPerProduct"] = V([num |-> 31, den |-> 2])

(***************************************************************************)
(* C7, as stated: if any one of the four required datasets is absent from  *)
(* the source, the run ends in the failure signal, no transformation step  *)
(* has run and no sink write has been issued.  Violated: a trigger for a   *)
(* file that is not required returns nothing, whatever the bucket holds.   *)
(***************************************************************************)
SomeAbsent == bucket # Range(required_files)
NothingTransformed == DOMAIN frames \subseteq InputLocals
NothingWritten == writes = <<>> /\ DOMAIN sink = {}

C7_Original ==
    SomeAbsent =>
        /\ NothingTransformed /\ NothingWritten
        /\ pc = "done" => result.kind = "error"

(***************************************************************************)
(* C7, amended: if the trigger's file name is one of the four required     *)
(* names and any one of the four required datasets is absent from the      *)
(* source, the run ends in the failure signal (the first absent file's     *)
(* NotFound), no transformation step has run and no sink write has been    *)
(* issued.                                                                 *)
(***************************************************************************)
FirstAbsent ==
    required_files[CHOOSE i \in DOMAIN required_files :
                     /\ required_files[i] \notin bucket
                     /\ \A j \in 1..(i - 1) : required_files[j] \in bucket]

C7_MissingInput ==
    (event \in Range(required_files) /\ SomeAbsent) =>
        /\ NothingTransformed /\ NothingWritten
        /\ pc = "done" => result = Failure(Raised("NotFound", FirstAbsent))

\* A run found the third file absent after reading two.
C7_Witness ==
    /\ pc = "done"
    /\ SomeAbsent
    /\ Len(reads) = 3
    /\ DOMAIN frames = {"orders_df", "customers_df"}
    /\ result.kind = "error"

(***************************************************************************)
(* C8: if any date of the Order dataset, in the Order Date or the Ship     *)
(* Date column, does not match the day/month/year format, the run fails    *)
(* with a date-parse failure and no table is written to the sink.  This is *)
(* the claim as stated; the code violates it (a defect of the code: ship   *)
(* dates are never parsed).                                                *)
(***************************************************************************)
C8_DateParse ==
    (pc = "done" /\ AllRead /\ ~WellFormedDates) =>
        /\ result.kind = "error"
        /\ result.body.exc = "ValueError"
        /\ NothingWritten

(***************************************************************************)
(* C9, as stated: every invocation, for every trigger descriptor, returns  *)
(* the success confirmation or a failure signal carrying the error         *)
(* description, and nothing else.  Violated: a trigger for a file that is  *)
(* not required returns no value.                                          *)
(***************************************************************************)
IsConfirmation(r) == r = [kind |-> "ok", body |-> "ETL process completed successfully.",
                          code |-> 200]
IsFailureSignal(r) ==
    /\ r.kind = "error"
    /\ r.code = 500
    /\ r.body.exc \in {"NotFound", "KeyError", "ValueError", "LoadError"}

C9_Original ==
    pc = "done" => (IsConfirmation(result) \/ IsFailureSignal(result))

(***************************************************************************)
(* C9, amended: every invocation returns exactly one of three results:     *)
(* nothing, when the trigger's file name is not among the four required    *)
(* names, and otherwise the success confirmation or a failure signal       *)
(* carrying the error description; nothing is returned before the run      *)
(* ends, and no download and no load is issued twice.                      *)
(***************************************************************************)
NoRepeat(s) == \A i, j \in DOMAIN s : s[i] = s[j] => i = j

C9_Returns ==
    /\ pc # "done" => result = Pending
    /\ pc = "done" =>
          IF event \in Range(required_files)
          THEN IsConfirmation(result) \/ IsFailureSignal(result)
          ELSE result = [kind |-> "none"] /\ reads = <<>> /\ NothingWritten
    /\ NoRepeat(reads) /\ NoRepeat(writes)

\* An invocation for a file that is not required has returned.
C9_Witness ==
    /\ pc = "done"
    /\ event \notin Range(required_files)
    /\ result.kind = "none"

====
